---- MODULE Spec2Model ----
(***************************************************************************)
(* Model of PyHEADTAIL gpu/gpu_wrap.py: the per-slice statistics wrappers  *)
(* (lazy slice-bound resolution, mean/std/cov reducers, emittance), the    *)
(* whole-beam covariance/emittance and the sort/permutation dispatchers.   *)
(*                                                                         *)
(* Numbers are exact rationals <<num, den>> (den > 0, lowest terms); the   *)
(* pair <<0, 0>> stands for a non-finite float (inf or nan).  A square     *)
(* root is kept symbolically as the record [rad |-> r].                    *)
(* Array positions are 0-based as in the source; Read/At translate to the  *)
(* 1-based sequences of TLA+.                                              *)
(***************************************************************************)
EXTENDS Integers, Sequences, FiniteSets, TLC

VARIABLES
    n_slices,                 \* sliceset.n_slices
    slice_index_of_particle,  \* sliceset.slice_index_of_particle (sorted)
    u, up, dp,                \* caller-owned value arrays; dp = [none, data]
    array, permutation,       \* caller-owned arguments of the sort helpers
    sliceset,                 \* attributes attached to the sliceset object
    result,                   \* what the last call returned or raised
    args,                     \* the value arrays the last call was given
    requests, resolutions,    \* history: statistics requests / bound resolutions
    first_bounds,             \* history: bounds attached by the first resolution
    pc, streams, cov,         \* sorted_emittance_per_slice, statement by statement
    launch                    \* launch configuration under study (SpecLaunch)

vars == <<n_slices, slice_index_of_particle, u, up, dp, array, permutation,
          sliceset, result, args, requests, resolutions, first_bounds,
          pc, streams, cov, launch>>

-----------------------------------------------------------------------------
(* Bounds of the model *)

MaxParticles == 3
MaxSlices == 2
MaxVal == 2
MaxBit == 1
MaxCount == 2
MaxLaunchSlices == 600
MaxBlocks == 1

(* Program constants *)

BlockSize == 256
n_streams == 3

-----------------------------------------------------------------------------
(* Exact arithmetic standing for float64 *)

Abs(x) == IF x < 0 THEN -x ELSE x

Max(a, b) == IF a >= b THEN a ELSE b

Min(a, b) == IF a <= b THEN a ELSE b

(* F applied to the value of x, x being evaluated once *)
Bind(x, F(_)) == CHOOSE r \in {F(v) : v \in {x}} : TRUE

RECURSIVE Gcd(_, _)
Gcd(a, b) == IF b = 0 THEN a ELSE Gcd(b, a % b)

NaN == <<0, 0>>

Rat(n, d) ==
    IF d = 0 THEN NaN
    ELSE LET g == Gcd(Abs(n), Abs(d))
             s == IF d < 0 THEN -1 ELSE 1
         IN  <<(s * n) \div g, (s * d) \div g>>

Num(k) == <<k, 1>>

IsFinite(x) == x[2] # 0

RAdd(x, y) == IF IsFinite(x) /\ IsFinite(y)
              THEN Rat(x[1] * y[2] + y[1] * x[2], x[2] * y[2]) ELSE NaN

RSub(x, y) == IF IsFinite(x) /\ IsFinite(y)
              THEN Rat(x[1] * y[2] - y[1] * x[2], x[2] * y[2]) ELSE NaN

RMul(x, y) == IF IsFinite(x) /\ IsFinite(y)
              THEN Rat(x[1] * y[1], x[2] * y[2]) ELSE NaN

RDiv(x, y) == IF IsFinite(x) /\ IsFinite(y)
              THEN Rat(x[1] * y[2], x[2] * y[1]) ELSE NaN

(* np.sqrt / pycuda.cumath.sqrt: nan for a negative or non-finite argument *)
Sqrt(x) == IF IsFinite(x) /\ x[1] >= 0 THEN [rad |-> x] ELSE [rad |-> NaN]

-----------------------------------------------------------------------------
(* Dense arrays *)

RECURSIVE SumSeq(_)
SumSeq(s) == IF s = <<>> THEN Num(0) ELSE RAdd(Head(s), SumSeq(Tail(s)))

Zeros(n) == [i \in 1..n |-> Num(0)]

Arange(a, b) == [i \in 1..Max(b - a, 0) |-> a + i - 1]

(* a[p] for a 0-based position p; a read past the end yields g *)
Read(a, p, g) == IF p >= 0 /\ p < Len(a) THEN a[p + 1] ELSE g

-----------------------------------------------------------------------------
(* thrust_interface: vectorised binary searches over the sorted index array. *)
(* lower: first position whose entry is >= v; upper: first whose entry > v.  *)

RECURSIVE LowerSearch(_, _, _, _)
LowerSearch(a, v, lo, hi) ==
    IF lo >= hi THEN lo
    ELSE LET mid == (lo + hi) \div 2
         IN  IF a[mid + 1] < v THEN LowerSearch(a, v, mid + 1, hi)
                               ELSE LowerSearch(a, v, lo, mid)

RECURSIVE UpperSearch(_, _, _, _)
UpperSearch(a, v, lo, hi) ==
    IF lo >= hi THEN lo
    ELSE LET mid == (lo + hi) \div 2
         IN  IF ~(v < a[mid + 1]) THEN UpperSearch(a, v, mid + 1, hi)
                                  ELSE UpperSearch(a, v, lo, mid)

lower_bound_int(sorted, values) ==
    [k \in 1..Len(values) |-> LowerSearch(sorted, values[k], 0, Len(sorted))]

upper_bound_int(sorted, values) ==
    [k \in 1..Len(values) |-> UpperSearch(sorted, values[k], 0, Len(sorted))]

-----------------------------------------------------------------------------
(* The sliceset object: the attributes this module attaches to it *)

FreshSliceset ==
    [attrs |-> {}, upper_bounds |-> <<>>, lower_bounds |-> <<>>,
     pidx_begin_ |-> 0, pidx_end_ |-> 0]

hasattr(ss, name) == name \in ss.attrs

(* the guard left out: every request resolves the bounds again *)
NeedsBoundsAlways(ss) == TRUE

(* the guard every statistics request starts with *)
NeedsBounds(ss) ==
    (~hasattr(ss, "upper_bounds")) /\ (~hasattr(ss, "lower_bounds"))

(* both bound arrays filled by the lower-bound search *)
_add_bounds_lower_twice(ss) ==
    LET seq == Arange(0, n_slices)
        upper_bounds == lower_bound_int(slice_index_of_particle, seq)
        lower_bounds == lower_bound_int(slice_index_of_particle, seq)
    IN  [attrs |-> ss.attrs \cup {"upper_bounds", "lower_bounds",
                                   "_pidx_begin", "_pidx_end"},
         upper_bounds |-> upper_bounds,
         lower_bounds |-> lower_bounds,
         pidx_begin_ |-> lower_bounds[1],
         pidx_end_ |-> upper_bounds[Len(upper_bounds)]]

_add_bounds_to_sliceset(ss) ==
    LET seq == Arange(0, n_slices)
        upper_bounds == upper_bound_int(slice_index_of_particle, seq)
        lower_bounds == lower_bound_int(slice_index_of_particle, seq)
    IN  [attrs |-> ss.attrs \cup {"upper_bounds", "lower_bounds",
                                   "_pidx_begin", "_pidx_end"},
         upper_bounds |-> upper_bounds,
         lower_bounds |-> lower_bounds,
         pidx_begin_ |-> lower_bounds[1],
         pidx_end_ |-> upper_bounds[Len(upper_bounds)]]

(* sliceset.pidx_begin / pidx_end: properties handing out the stored ends *)
pidx_begin(ss) == ss.pidx_begin_

pidx_end(ss) == ss.pidx_end_

WithBounds(ss) == IF NeedsBounds(ss) THEN _add_bounds_to_sliceset(ss) ELSE ss

HasBounds(ss) == hasattr(ss, "upper_bounds") /\ hasattr(ss, "lower_bounds")

-----------------------------------------------------------------------------
(* What a call hands back.  buf names the buffer the returned array lives   *)
(* in ("new": allocated by the call); grid/block are the launch it used;    *)
(* lower/upper the bounds it read; fault a pending device fault; started    *)
(* the number of device reductions or permutations the call launched.       *)

NoLaunch == [block |-> 0, grid |-> 0]

Ret(op, status, data, buf, kl, ss, fault, started) ==
    [op |-> op, status |-> status, data |-> data, buf |-> buf, launch |-> kl,
     lower |-> ss.lower_bounds, upper |-> ss.upper_bounds, fault |-> fault,
     started |-> started]

NoResult == Ret("none", "none", <<>>, "none", NoLaunch, FreshSliceset, FALSE, 0)

Raise(op, err, ss, started) == Ret(op, err, <<>>, "none", NoLaunch, ss, FALSE, started)

(* outcome of reading device memory past the end of an array: a value that *)
(* happens to lie there, with or without a device fault reported later.    *)
OobOutcomes == [fault : BOOLEAN, g : 0..MaxBit]

NoOob == [fault |-> FALSE, g |-> 0]

OobFor(possible) == IF possible THEN OobOutcomes ELSE {NoOob}

-----------------------------------------------------------------------------
(* stats.cu: one reduction per slice; thread t of the grid*block launched   *)
(* threads folds the slices t, t + grid*block, ... below n.                 *)

Processed(sid, n, kl) ==
    /\ sid < n
    /\ kl.grid * kl.block > 0
    /\ (sid % (kl.grid * kl.block)) \in 0..(kl.grid * kl.block - 1)

SliceVals(a, lo, hi, g) == [k \in 1..(hi - lo) |-> Num(Read(a, lo + k - 1, g))]

MeanOf(vals) == RDiv(SumSeq(vals), Num(Len(vals)))

Deviations(vals) == LET m == MeanOf(vals) IN [k \in 1..Len(vals) |-> RSub(vals[k], m)]

Products(x, y) == [k \in 1..Len(x) |-> RMul(x[k], y[k])]

sorted_mean_per_slice_kernel(lb, ub, a, n, out, kl, g) ==
    [i \in 1..Len(out) |->
        IF Processed(i - 1, n, kl)
        THEN IF ub[i] - lb[i] <= 0 THEN Num(0)
             ELSE MeanOf(SliceVals(a, lb[i], ub[i], g))
        ELSE out[i]]

sorted_std_per_slice_kernel(lb, ub, a, n, out, kl, g) ==
    [i \in 1..Len(out) |->
        IF Processed(i - 1, n, kl)
        THEN IF ub[i] - lb[i] <= 1 THEN Sqrt(Num(0))
             ELSE LET d == Deviations(SliceVals(a, lb[i], ub[i], g))
                  IN  Sqrt(RDiv(SumSeq(Products(d, d)), Num(Len(d))))
        ELSE out[i]]

sorted_cov_per_slice_kernel(lb, ub, a, b, n, out, kl, g) ==
    [i \in 1..Len(out) |->
        IF Processed(i - 1, n, kl)
        THEN IF ub[i] - lb[i] <= 0 THEN Num(0)
             ELSE LET x == Deviations(SliceVals(a, lb[i], ub[i], g))
                      y == Deviations(SliceVals(b, lb[i], ub[i], g))
                  IN  RDiv(SumSeq(Products(x, y)), Num(Len(x) + 1))
        ELSE out[i]]

-----------------------------------------------------------------------------
(* The statistics requests.  Each returns [ss |-> sliceset afterwards,      *)
(* nres |-> how often it resolved the bounds, ret |-> the returned value].  *)

(* the grid without the max(..., 1) *)
LaunchConfigNoMax(n) == [block |-> BlockSize, grid |-> n \div BlockSize]

(* a single block whatever the slice count *)
LaunchConfigOneBlock(n) == [block |-> BlockSize, grid |-> 1]

LaunchConfig(n) == [block |-> BlockSize, grid |-> Max(n \div BlockSize, 1)]

Resolved(ss0) == IF NeedsBounds(ss0) THEN 1 ELSE 0

(* the range taken up to and including pidx_end *)
particles_within_cuts_inclusive(ss0) ==
    Bind(WithBounds(ss0), LAMBDA ss :
        [ss |-> ss, nres |-> Resolved(ss0),
         ret |-> IF hasattr(ss, "_pidx_begin") /\ hasattr(ss, "_pidx_end")
                 THEN Ret("particles_within_cuts", "ok",
                          Arange(pidx_begin(ss), pidx_end(ss) + 1), "new",
                          NoLaunch, ss, FALSE, 0)
                 ELSE Raise("particles_within_cuts", "AttributeError", ss, 0)])

particles_within_cuts(ss0) ==
    Bind(WithBounds(ss0), LAMBDA ss :
        [ss |-> ss, nres |-> Resolved(ss0),
         ret |-> IF hasattr(ss, "_pidx_begin") /\ hasattr(ss, "_pidx_end")
                 THEN Ret("particles_within_cuts", "ok",
                          Arange(pidx_begin(ss), pidx_end(ss)), "new",
                          NoLaunch, ss, FALSE, 0)
                 ELSE Raise("particles_within_cuts", "AttributeError", ss, 0)])

macroparticles_per_slice(ss0) ==
    Bind(WithBounds(ss0), LAMBDA ss :
        [ss |-> ss, nres |-> Resolved(ss0),
         ret |-> IF HasBounds(ss)
                 THEN Ret("macroparticles_per_slice", "ok",
                          [i \in 1..Len(ss.upper_bounds) |->
                              ss.upper_bounds[i] - ss.lower_bounds[i]],
                          "new", NoLaunch, ss, FALSE, 0)
                 ELSE Raise("macroparticles_per_slice", "AttributeError", ss, 0)])

sorted_mean_per_slice(ss0, a, oob) ==
    Bind(WithBounds(ss0), LAMBDA ss :
        LET kl == LaunchConfig(n_slices)
            mean_u == Zeros(n_slices)
        IN  [ss |-> ss, nres |-> Resolved(ss0),
             ret |-> IF HasBounds(ss)
                     THEN Ret("sorted_mean_per_slice", "ok",
                              sorted_mean_per_slice_kernel(ss.lower_bounds,
                                  ss.upper_bounds, a, n_slices, mean_u, kl, oob.g),
                              "new", kl, ss, oob.fault, 1)
                     ELSE Raise("sorted_mean_per_slice", "AttributeError", ss, 0)])

sorted_std_per_slice(ss0, a, oob) ==
    Bind(WithBounds(ss0), LAMBDA ss :
        LET kl == LaunchConfig(n_slices)
            std_u == [i \in 1..n_slices |-> Sqrt(Num(0))]
        IN  [ss |-> ss, nres |-> Resolved(ss0),
             ret |-> IF HasBounds(ss)
                     THEN Ret("sorted_std_per_slice", "ok",
                              sorted_std_per_slice_kernel(ss.lower_bounds,
                                  ss.upper_bounds, a, n_slices, std_u, kl, oob.g),
                              "new", kl, ss, oob.fault, 1)
                     ELSE Raise("sorted_std_per_slice", "AttributeError", ss, 0)])

sorted_cov_per_slice(ss0, a, b, oob) ==
    Bind(WithBounds(ss0), LAMBDA ss :
        LET kl == LaunchConfig(n_slices)
            cov_uv == Zeros(n_slices)
        IN  [ss |-> ss, nres |-> Resolved(ss0),
             ret |-> IF HasBounds(ss)
                     THEN Ret("sorted_cov_per_slice", "ok",
                              sorted_cov_per_slice_kernel(ss.lower_bounds,
                                  ss.upper_bounds, a, b, n_slices, cov_uv, kl, oob.g),
                              "new", kl, ss, oob.fault, 1)
                     ELSE Raise("sorted_cov_per_slice", "AttributeError", ss, 0)])

-----------------------------------------------------------------------------
(* Elementwise GPUArray arithmetic *)

EwSub(a, b) == [i \in 1..Len(a) |-> RSub(a[i], b[i])]

EwMul(a, b) == [i \in 1..Len(a) |-> RMul(a[i], b[i])]

EwDiv(a, b) == [i \in 1..Len(a) |-> RDiv(a[i], b[i])]

EwSqrt(a) == [i \in 1..Len(a) |-> Sqrt(a[i])]

zeros_like(a) == [i \in 1..Len(a) |-> Num(0)]

AddScalar(a, k) == [i \in 1..Len(a) |-> RAdd(a[i], k)]

(* the "+ 1." put on all three defaults *)
DefaultDpTermsOnes(cov_u2) ==
    [cov_dp2 |-> AddScalar(zeros_like(cov_u2), Num(1)),
     cov_u_dp |-> AddScalar(zeros_like(cov_u2), Num(1)),
     cov_up_dp |-> AddScalar(zeros_like(cov_u2), Num(1))]

(* cov(u,dp), cov(up,dp), cov(dp,dp) per slice when dp is None *)
DefaultDpTerms(cov_u2) ==
    [cov_dp2 |-> AddScalar(zeros_like(cov_u2), Num(1)),
     cov_u_dp |-> zeros_like(cov_u2),
     cov_up_dp |-> zeros_like(cov_u2)]

(* the composition step: sigma11, sigma12, sigma22 and the square root *)
Compose(cov_u2, cov_up2, cov_u_up, cov_u_dp, cov_up_dp, cov_dp2) ==
    Bind(EwSub(cov_u2, EwDiv(EwMul(cov_u_dp, cov_u_dp), cov_dp2)), LAMBDA sigma11 :
    Bind(EwSub(cov_u_up, EwDiv(EwMul(cov_u_dp, cov_up_dp), cov_dp2)), LAMBDA sigma12 :
    Bind(EwSub(cov_up2, EwDiv(EwMul(cov_up_dp, cov_up_dp), cov_dp2)), LAMBDA sigma22 :
        EwSqrt(EwSub(EwMul(sigma11, sigma22), EwMul(sigma12, sigma12))))))

(* what sorted_emittance_per_slice returns after the calls it made *)
EmittanceOf(calls, emit) ==
    LET last == calls[Len(calls)]
    IN  [ss |-> last.ss,
         nres |-> SumSeq([k \in 1..Len(calls) |-> Num(calls[k].nres)])[1],
         ret |-> IF \E k \in 1..Len(calls) : calls[k].ret.status # "ok"
                 THEN Raise("sorted_emittance_per_slice", "AttributeError", last.ss, 0)
                 ELSE Ret("sorted_emittance_per_slice", "ok", emit,
                          "new", last.ret.launch, last.ss,
                          \E k \in 1..Len(calls) : calls[k].ret.fault,
                          Len(calls))]

sorted_emittance_per_slice(ss0, a, ap, d, oob) ==
    Bind(sorted_cov_per_slice(ss0, a, a, oob), LAMBDA cov_u2 :
    Bind(sorted_cov_per_slice(cov_u2.ss, ap, ap, oob), LAMBDA cov_up2 :
    Bind(sorted_cov_per_slice(cov_up2.ss, a, ap, oob), LAMBDA cov_u_up :
        IF ~d.none
        THEN Bind(sorted_cov_per_slice(cov_u_up.ss, a, d.data, oob), LAMBDA cov_u_dp :
             Bind(sorted_cov_per_slice(cov_u_dp.ss, ap, d.data, oob), LAMBDA cov_up_dp :
             Bind(sorted_cov_per_slice(cov_up_dp.ss, d.data, d.data, oob), LAMBDA cov_dp2 :
                 EmittanceOf(<<cov_u2, cov_up2, cov_u_up, cov_u_dp, cov_up_dp, cov_dp2>>,
                     Compose(cov_u2.ret.data, cov_up2.ret.data, cov_u_up.ret.data,
                             cov_u_dp.ret.data, cov_up_dp.ret.data, cov_dp2.ret.data)))))
        ELSE Bind(DefaultDpTerms(cov_u2.ret.data), LAMBDA dflt :
                 EmittanceOf(<<cov_u2, cov_up2, cov_u_up>>,
                     Compose(cov_u2.ret.data, cov_up2.ret.data, cov_u_up.ret.data,
                             dflt.cov_u_dp, dflt.cov_up_dp, dflt.cov_dp2))))))

-----------------------------------------------------------------------------
(* Whole-beam statistics *)

(* skcuda.misc.mean *)
mean(a) == RDiv(SumSeq(a), Num(Len(a)))

Nums(a) == [k \in 1..Len(a) |-> Num(a[k])]

SubScalar(a, m) == [k \in 1..Len(a) |-> RSub(a[k], m)]

(* x * y on GPUArrays: as long as x, reading y past its end where y is shorter *)
GpuMul(x, y, g) == [k \in 1..Len(x) |-> RMul(x[k], Read(y, k - 1, g))]

covariance(a, b, g) ==
    LET n == Len(a)
        mean_a == mean(Nums(a))
        x == SubScalar(Nums(a), mean_a)
        mean_b == mean(Nums(b))
        y == SubScalar(Nums(b), mean_b)
    IN  RDiv(RMul(mean(GpuMul(x, y, Num(g))), Num(n)), Num(n + 1))

emittance(a, ap, d, g) ==
    LET cov_u2 == covariance(a, a, g)
        cov_up2 == covariance(ap, ap, g)
        cov_u_up == covariance(ap, a, g)
        cov_u_dp == IF d.none THEN Num(0) ELSE covariance(a, d.data, g)
        cov_up_dp == IF d.none THEN Num(0) ELSE covariance(ap, d.data, g)
        cov_dp2 == IF d.none THEN Num(1) ELSE covariance(d.data, d.data, g)
        sigma11 == RSub(cov_u2, RDiv(RMul(cov_u_dp, cov_u_dp), cov_dp2))
        sigma12 == RSub(cov_u_up, RDiv(RMul(cov_u_dp, cov_up_dp), cov_dp2))
        sigma22 == RSub(cov_up2, RDiv(RMul(cov_up_dp, cov_up_dp), cov_dp2))
    IN  Sqrt(RSub(RMul(sigma11, sigma22), RMul(sigma12, sigma12)))

-----------------------------------------------------------------------------
(* Sorting helpers.  An array is [itemsize, kind, data]: its dtype and its  *)
(* elements.                                                                *)

IsFloat64(a) == a.itemsize = 8 /\ a.kind = "f"

IsInt32(a) == a.itemsize = 4 /\ a.kind = "i"

(* names bound at module level, and the parameters and locals of the two    *)
(* functions; a name found in neither raises NameError when it is read      *)
ModuleGlobals ==
    {"np", "os", "skcuda", "pycuda", "drv", "thrust_interface", "thrust",
     "where", "stream", "source", "stats_kernels",
     "sorted_mean_per_slice_kernel", "sorted_std_per_slice_kernel",
     "sorted_cov_per_slice_kernel", "covariance", "emittance", "argsort",
     "apply_permutation", "particles_within_cuts", "macroparticles_per_slice",
     "_add_bounds_to_sliceset", "sorted_mean_per_slice", "sorted_std_per_slice",
     "sorted_cov_per_slice", "sorted_emittance_per_slice", "convolve"}

ArgsortLocals == {"to_sort", "dtype", "permutation"}

ApplyPermutationLocals == {"array", "permutation", "tmp", "dtype"}

Resolves(name, locals) == name \in locals \cup ModuleGlobals

(* the else branch of both dispatchers: print array.dtype ..., then raise *)
UnsupportedType(locals) ==
    IF Resolves("array", locals) THEN "TypeError" ELSE "NameError"

(* the permutations that put keys in ascending order (ties in any order) *)
SortPerms(keys) ==
    {q \in [1..Len(keys) -> 0..(Len(keys) - 1)] :
        /\ \A i, j \in 1..Len(keys) : i # j => q[i] # q[j]
        /\ \A i \in 1..(Len(keys) - 1) : keys[q[i] + 1] <= keys[q[i + 1] + 1]}

(* thrust.get_sort_perm_*: sorts keys in place and writes the permutation *)
get_sort_perm(keys, q) ==
    [keys |-> [i \in 1..Len(keys) |-> keys[q[i] + 1]], permutation |-> q]

(* the keys handed to thrust without the copy *)
SortArgumentInPlace(to_sort) == [buf |-> "to_sort", data |-> to_sort.data]

(* the keys handed to thrust: to_sort.copy() *)
SortArgument(to_sort) == [buf |-> "copy", data |-> to_sort.data]

(* Returns [arg |-> to_sort afterwards, ret |-> ...] *)
argsort(to_sort, q) ==
    LET passed == SortArgument(to_sort)
        sorted == get_sort_perm(passed.data, q)
    IN  IF IsFloat64(to_sort) \/ IsInt32(to_sort)
        THEN [arg |-> IF passed.buf = "to_sort"
                      THEN [to_sort EXCEPT !.data = sorted.keys] ELSE to_sort,
              ret |-> Ret("argsort", "ok", sorted.permutation, "new", NoLaunch,
                          FreshSliceset, FALSE, 1)]
        ELSE [arg |-> to_sort,
              ret |-> Raise("argsort", UnsupportedType(ArgsortLocals),
                            FreshSliceset, 0)]

(* thrust.apply_sort_perm_*: out[k] = in[perm[k]] for every k of the input; *)
(* an index outside the input, or a missing entry of perm, reads garbage    *)
apply_sort_perm(in, out, perm, g) ==
    [k \in 1..Len(out) |->
        IF k <= Len(perm) THEN Read(in, perm[k], g) ELSE g]

(* pycuda.gpuarray.empty_like: a new buffer of the same shape *)
empty_like(arr) == [buf |-> "new", data |-> [i \in 1..Len(arr.data) |-> 0]]

PermOob(a, perm) ==
    \/ Len(perm) # Len(a)
    \/ \E k \in 1..Len(perm) : perm[k] < 0 \/ perm[k] >= Len(a)

(* Returns [arg |-> array afterwards, ret |-> ...] *)
apply_permutation(arr, perm, oob) ==
    IF ~IsInt32(perm)
    THEN [arg |-> arr,
          ret |-> Raise("apply_permutation", "AssertionError", FreshSliceset, 0)]
    ELSE IF IsFloat64(arr) \/ IsInt32(arr)
    THEN LET tmp == empty_like(arr)
             out == apply_sort_perm(arr.data, tmp.data, perm.data, oob.g)
         IN  [arg |-> IF tmp.buf = "array" THEN [arr EXCEPT !.data = out] ELSE arr,
              ret |-> Ret("apply_permutation", "ok", out,
                          tmp.buf, NoLaunch, FreshSliceset,
                          oob.fault /\ PermOob(arr.data, perm.data), 1)]
    ELSE [arg |-> arr,
          ret |-> Raise("apply_permutation",
                        UnsupportedType(ApplyPermutationLocals), FreshSliceset, 0)]

-----------------------------------------------------------------------------------------------------------------------------------------------------
(* Inputs *)

SortedSeqs(N, lo, hi) ==
    {q \in [1..N -> lo..hi] : \A i \in 1..(N - 1) : q[i] <= q[i + 1]}

Const(N, k) == [i \in 1..N |-> k]

Ramp(N) == [i \in 1..N |-> i % (MaxVal + 1)]

Down(N) == [i \in 1..N |-> (N - i) % (MaxVal + 1)]

None == [none |-> TRUE, data |-> <<>>]

Some(a) == [none |-> FALSE, data |-> a]

Float64(a) == [itemsize |-> 8, kind |-> "f", data |-> a]

Int32(a) == [itemsize |-> 4, kind |-> "i", data |-> a]

Reversal(N) == [i \in 1..N |-> N - i]

Requests == {"particles_within_cuts", "macroparticles_per_slice",
             "sorted_mean_per_slice", "sorted_std_per_slice",
             "sorted_cov_per_slice", "sorted_emittance_per_slice"}

Idle == [at |-> "idle", i |-> 0, launched |-> 0]

NoStreams == [s \in 0..(n_streams - 1) |-> <<>>]

NoCov == [k \in {} |-> 0]

InitObject ==
    /\ sliceset = FreshSliceset
    /\ result = NoResult
    /\ args = <<>>
    /\ requests = 0
    /\ resolutions = 0
    /\ first_bounds = <<>>
    /\ pc = Idle
    /\ streams = NoStreams
    /\ cov = NoCov
    /\ launch = NoLaunch

(* value arrays going with N particles: constant u without dp, ramps with dp *)
ValueFamily(N) ==
    {[u |-> Const(N, MaxVal), up |-> Down(N), dp |-> None],
     [u |-> Ramp(N), up |-> Down(N), dp |-> Some(Const(N, 1))],
     [u |-> Down(N), up |-> Ramp(N), dp |-> Some(Ramp(N))]}

(* slicings of a few particles, indices in [0, n_slices) or just outside *)
InitSliced ==
    /\ n_slices \in 1..MaxSlices
    /\ \E N \in 0..MaxParticles :
        /\ slice_index_of_particle \in SortedSeqs(N, -1, n_slices)
        /\ \E f \in ValueFamily(N) : u = f.u /\ up = f.up /\ dp = f.dp
        /\ array = Int32(slice_index_of_particle)
        /\ permutation = Int32(Reversal(N))

(* slice counts around the multiples of the block size *)
InitManySlices ==
    /\ n_slices \in {k * BlockSize + d : k \in 1..MaxBlocks, d \in {-1, 0, 1}}
    /\ slice_index_of_particle \in
          {<<>>, <<n_slices - 1>>, <<0, n_slices - 1>>,
           <<-1, n_slices - 2, n_slices - 1, n_slices>>}
    /\ u = Ramp(Len(slice_index_of_particle))
    /\ up = Down(Len(slice_index_of_particle))
    /\ dp = None
    /\ array = Int32(slice_index_of_particle)
    /\ permutation = Int32(Reversal(Len(slice_index_of_particle)))

Init == InitObject /\ (InitSliced \/ InitManySlices)

-----------------------------------------------------------------------------
(* Calls *)

Inputs == <<n_slices, slice_index_of_particle, u, up, dp>>

StreamVars == <<pc, streams, cov, launch>>

ValueArgs == {u, up}

Short(a) == Len(a) < Len(slice_index_of_particle)

Count(n, k) == Min(n + k, MaxCount)

(* a statistics request r = [ss, nres, ret] returns *)
Request(r, given) ==
    /\ sliceset' = r.ss
    /\ result' = r.ret
    /\ args' = given
    /\ requests' = Count(requests, 1)
    /\ resolutions' = Count(resolutions, r.nres)
    /\ first_bounds' = IF resolutions = 0 /\ r.nres > 0
                       THEN <<r.ss.lower_bounds, r.ss.upper_bounds>>
                       ELSE first_bounds
    /\ UNCHANGED <<Inputs, array, permutation, StreamVars>>

ParticlesWithinCuts ==
    /\ pc = Idle
    /\ Request(particles_within_cuts(sliceset), <<>>)

MacroparticlesPerSlice ==
    /\ pc = Idle
    /\ Request(macroparticles_per_slice(sliceset), <<>>)

SortedMeanPerSlice ==
    /\ pc = Idle
    /\ \E a \in ValueArgs : \E oob \in OobFor(Short(a)) :
          Request(sorted_mean_per_slice(sliceset, a, oob), <<a>>)

SortedStdPerSlice ==
    /\ pc = Idle
    /\ \E a \in ValueArgs : \E oob \in OobFor(Short(a)) :
          Request(sorted_std_per_slice(sliceset, a, oob), <<a>>)

SortedCovPerSlice ==
    /\ pc = Idle
    /\ \E a \in ValueArgs, b \in ValueArgs : \E oob \in OobFor(Short(a) \/ Short(b)) :
          Request(sorted_cov_per_slice(sliceset, a, b, oob), <<a, b>>)

SortedEmittancePerSlice ==
    /\ pc = Idle
    /\ \E oob \in OobFor(Short(u) \/ Short(up) \/ (~dp.none /\ Short(dp.data))) :
          Request(sorted_emittance_per_slice(sliceset, u, up, dp, oob), <<u, up, dp.data>>)

(* a call that is no statistics request returns *)
Return(ret, given) ==
    /\ result' = ret
    /\ args' = given
    /\ UNCHANGED <<Inputs, sliceset, requests, resolutions, first_bounds, StreamVars>>

Covariance ==
    /\ pc = Idle
    /\ \E a \in ValueArgs, b \in ValueArgs : \E oob \in OobFor(Len(b) < Len(a)) :
          Return(Ret("covariance", "ok", <<covariance(a, b, oob.g)>>, "host",
                     NoLaunch, FreshSliceset, oob.fault, 3), <<a, b>>)
    /\ UNCHANGED <<array, permutation>>

Emittance ==
    /\ pc = Idle
    /\ \E oob \in OobFor(Len(up) # Len(u) \/ (~dp.none /\ Len(dp.data) < Len(u))) :
          Return(Ret("emittance", "ok", <<emittance(u, up, dp, oob.g)>>, "host",
                     NoLaunch, FreshSliceset, oob.fault, IF dp.none THEN 9 ELSE 18),
                 <<u, up, dp.data>>)
    /\ UNCHANGED <<array, permutation>>

Argsort ==
    /\ pc = Idle
    /\ \E q \in SortPerms(array.data) :
          LET r == argsort(array, q)
          IN  Return(r.ret, <<>>) /\ array' = r.arg
    /\ UNCHANGED permutation

ApplyPermutation ==
    /\ pc = Idle
    /\ \E oob \in OobFor(PermOob(array.data, permutation.data)) :
          LET r == apply_permutation(array, permutation, oob)
          IN  Return(r.ret, <<>>) /\ array' = r.arg
    /\ UNCHANGED permutation

StatisticsRequests ==
    \/ ParticlesWithinCuts
    \/ MacroparticlesPerSlice
    \/ SortedMeanPerSlice
    \/ SortedStdPerSlice
    \/ SortedCovPerSlice
    \/ SortedEmittancePerSlice

Calls ==
    \/ StatisticsRequests
    \/ Covariance
    \/ Emittance
    \/ Argsort
    \/ ApplyPermutation

Next == StatisticsRequests

(* one sliceset object and the statistics requests made on it *)
Spec == Init /\ [][Next]_vars

-----------------------------------------------------------------------------
(* Every function of the module, on well-formed and on ill-formed arguments *)

InRange(N) == SortedSeqs(N, 0, n_slices - 1)

Dtypes == [itemsize : {4, 8}, kind : {"f", "i", "u"}]

Typed(t, a) == [itemsize |-> t.itemsize, kind |-> t.kind, data |-> a]

InitWellFormed ==
    /\ n_slices \in 1..MaxSlices
    /\ slice_index_of_particle \in InRange(MaxSlices)
    /\ \E f \in ValueFamily(MaxSlices) : u = f.u /\ up = f.up /\ dp = f.dp
    /\ array = Float64(Down(MaxSlices))
    /\ permutation = Int32(Reversal(MaxSlices))

(* arrays of every dtype, permutations of two dtypes *)
InitTyped ==
    /\ n_slices = 1
    /\ slice_index_of_particle = <<0, 0>>
    /\ u = Ramp(2) /\ up = Down(2) /\ dp = None
    /\ array \in {Typed(t, Down(MaxSlices)) : t \in Dtypes}
    /\ permutation \in {Typed(t, Reversal(MaxSlices)) :
                           t \in {tt \in Dtypes : tt.kind = "i"}}

(* a value array or a permutation shorter or longer than what it goes with *)
InitShaped ==
    /\ n_slices = MaxSlices
    /\ slice_index_of_particle \in InRange(MaxSlices)
    /\ \E d \in {<<-1, 0>>, <<1, 0>>, <<0, -1>>, <<0, 1>>} :
        /\ u = Ramp(MaxSlices + d[1])
        /\ permutation = Int32(Reversal(MaxSlices + d[2]))
    /\ up = Down(MaxSlices)
    /\ dp = None
    /\ array = Float64(Down(MaxSlices))

InitCalls == InitObject /\ (InitWellFormed \/ InitTyped \/ InitShaped)

SpecCalls == InitCalls /\ [][Calls]_vars

-----------------------------------------------------------------------------
(* The emittance functions on free value arrays *)

InitValues ==
    /\ InitObject
    /\ n_slices \in {1, MaxSlices}
    /\ slice_index_of_particle \in
          {Const(MaxParticles, 0), Const(MaxParticles, n_slices - 1),
           [i \in 1..MaxParticles |-> IF i = MaxParticles THEN n_slices - 1 ELSE 0]}
    /\ u \in [1..MaxParticles -> 0..MaxBit]
    /\ up \in {Ramp(MaxParticles), Down(MaxParticles)}
    /\ dp \in {None, Some(Ramp(MaxParticles))}
    /\ array = Int32(slice_index_of_particle)
    /\ permutation = Int32(Reversal(MaxParticles))

SpecValues == InitValues /\ [][Emittance \/ SortedEmittancePerSlice]_vars

-----------------------------------------------------------------------------
(* The launch configuration as a function of the slice count *)

InitLaunch ==
    /\ InitObject
    /\ n_slices \in 1..MaxLaunchSlices
    /\ slice_index_of_particle = <<>>
    /\ u = <<>> /\ up = <<>> /\ dp = None
    /\ array = Int32(<<>>)
    /\ permutation = Int32(<<>>)

ApplyLaunchConfig ==
    /\ launch = NoLaunch
    /\ launch' = LaunchConfig(n_slices)
    /\ UNCHANGED <<Inputs, array, permutation, sliceset, result, args, requests,
                   resolutions, first_bounds, pc, streams, cov>>

SpecLaunch == InitLaunch /\ [][ApplyLaunchConfig]_vars

-----------------------------------------------------------------------------
(* sorted_emittance_per_slice statement by statement: the covariance        *)
(* kernels are queued on three streams and run whenever the device gets to  *)
(* them, each stream in its own order; pc is the statement the host is at.  *)
(* cov[name] is what the host array of that name holds at the moment.       *)

At(stmt, i, k) == [at |-> stmt, i |-> i, launched |-> k]

(* the sorted_cov_per_slice calls: arguments, stream and following statement *)
CovCall(stmt) ==
    CASE stmt = "cov_u2"    -> [a |-> u, b |-> u, stream |-> 0, next |-> "cov_up2"]
      [] stmt = "cov_up2"   -> [a |-> up, b |-> up, stream |-> 1, next |-> "cov_u_up"]
      [] stmt = "cov_u_up"  -> [a |-> u, b |-> up, stream |-> 2,
                                next |-> IF dp.none THEN "defaults" ELSE "cov_u_dp"]
      [] stmt = "cov_u_dp"  -> [a |-> u, b |-> dp.data, stream |-> 0, next |-> "cov_up_dp"]
      [] stmt = "cov_up_dp" -> [a |-> up, b |-> dp.data, stream |-> 1, next |-> "cov_dp2"]
      [] stmt = "cov_dp2"   -> [a |-> dp.data, b |-> dp.data, stream |-> 2, next |-> "sync"]

CovStmts == {"cov_u2", "cov_up2", "cov_u_up", "cov_u_dp", "cov_up_dp", "cov_dp2"}

(* a synchronize loop that stops one stream early *)
SyncedStreamsShort == 0..(n_streams - 2)

(* the streams the synchronize loop waits for, in ascending order *)
SyncedStreams == 0..(n_streams - 1)

EmittanceCall ==
    /\ pc = Idle
    /\ pc' = At("cov_u2", 0, 0)
    /\ streams' = NoStreams
    /\ cov' = NoCov
    /\ args' = <<u, up, dp.data>>
    /\ UNCHANGED <<Inputs, array, permutation, sliceset, result, requests,
                   resolutions, first_bounds, launch>>

(* cov_x = sorted_cov_per_slice(sliceset, a, b, stream=streams[k]): resolves *)
(* the bounds if need be, allocates the zeroed result and queues the kernel  *)
LaunchCov ==
    /\ pc.at \in CovStmts
    /\ LET c == CovCall(pc.at)
           r == sorted_cov_per_slice(sliceset, c.a, c.b, NoOob)
       IN  /\ sliceset' = r.ss
           /\ resolutions' = Count(resolutions, r.nres)
           /\ first_bounds' = IF resolutions = 0 /\ r.nres > 0
                              THEN <<r.ss.lower_bounds, r.ss.upper_bounds>>
                              ELSE first_bounds
           /\ cov' = (pc.at :> Zeros(n_slices)) @@ cov
           /\ streams' = [streams EXCEPT ![c.stream] =
                             Append(@, [out |-> pc.at, data |-> r.ret.data])]
           /\ pc' = At(c.next, 0, pc.launched + 1)
    /\ requests' = Count(requests, 1)
    /\ UNCHANGED <<Inputs, array, permutation, result, args, launch>>

(* the else branch: cov_dp2, cov_u_dp, cov_up_dp from zeros_like(cov_u2) *)
AssignDefaults ==
    /\ pc.at = "defaults"
    /\ LET dflt == DefaultDpTerms(cov["cov_u2"])
       IN  cov' = ("cov_dp2" :> dflt.cov_dp2) @@ ("cov_u_dp" :> dflt.cov_u_dp)
                   @@ ("cov_up_dp" :> dflt.cov_up_dp) @@ cov
    /\ pc' = At("sync", 0, pc.launched)
    /\ UNCHANGED <<Inputs, array, permutation, sliceset, result, args, requests,
                   resolutions, first_bounds, streams, launch>>

(* the device finishes the oldest kernel of a stream *)
KernelComplete ==
    /\ \E k \in 0..(n_streams - 1) :
        /\ streams[k] # <<>>
        /\ cov' = [cov EXCEPT ![Head(streams[k]).out] = Head(streams[k]).data]
        /\ streams' = [streams EXCEPT ![k] = Tail(@)]
    /\ UNCHANGED <<Inputs, array, permutation, sliceset, result, args, requests,
                   resolutions, first_bounds, pc, launch>>

(* streams[i].synchronize() returns once stream i has nothing left to run *)
Synchronize ==
    /\ pc.at = "sync"
    /\ IF pc.i \in SyncedStreams
       THEN /\ streams[pc.i] = <<>>
            /\ pc' = At("sync", pc.i + 1, pc.launched)
       ELSE pc' = At("compose", 0, pc.launched)
    /\ UNCHANGED <<Inputs, array, permutation, sliceset, result, args, requests,
                   resolutions, first_bounds, streams, cov, launch>>

(* sigma11, sigma12, sigma22, the square root, and the return *)
ComposeAndReturn ==
    /\ pc.at = "compose"
    /\ result' = Ret("sorted_emittance_per_slice", "ok",
                     Compose(cov["cov_u2"], cov["cov_up2"], cov["cov_u_up"],
                             cov["cov_u_dp"], cov["cov_up_dp"], cov["cov_dp2"]),
                     "new", LaunchConfig(n_slices), sliceset, FALSE, pc.launched)
    /\ pc' = Idle
    /\ UNCHANGED <<Inputs, array, permutation, sliceset, args, requests,
                   resolutions, first_bounds, streams, cov, launch>>

InitStreams ==
    /\ InitObject
    /\ n_slices \in {1, MaxSlices}
    /\ slice_index_of_particle \in
          {Const(MaxParticles, 0),
           [i \in 1..MaxParticles |-> IF i = MaxParticles THEN n_slices - 1 ELSE 0]}
    /\ \E f \in ValueFamily(MaxParticles) : u = f.u /\ up = f.up /\ dp = f.dp
    /\ array = Int32(slice_index_of_particle)
    /\ permutation = Int32(Reversal(MaxParticles))

NextStreams ==
    \/ EmittanceCall
    \/ LaunchCov
    \/ AssignDefaults
    \/ KernelComplete
    \/ Synchronize
    \/ ComposeAndReturn

SpecStreams == InitStreams /\ [][NextStreams]_vars

-----------------------------------------------------------------------------
(* Properties of the bound resolution and of the statistics requests *)

NParticles == Len(slice_index_of_particle)

LB(i) == sliceset.lower_bounds[i + 1]

UB(i) == sliceset.upper_bounds[i + 1]

(* C1: once _add_bounds_to_sliceset has attached the bounds of a sorted    *)
(* index array, for every slice i the positions in [lower_bounds[i],       *)
(* upper_bounds[i]) are exactly the positions holding index i,             *)
(* lower_bounds[i] <= upper_bounds[i], and upper_bounds[i] equals          *)
(* lower_bounds[i+1] for i < n_slices-1.                                   *)
C1_BoundsPartition ==
    HasBounds(sliceset) =>
        /\ Len(sliceset.lower_bounds) = n_slices
        /\ Len(sliceset.upper_bounds) = n_slices
        /\ \A i \in 0..(n_slices - 1) :
            /\ \A p \in 0..(NParticles - 1) :
                  (LB(i) <= p /\ p < UB(i)) <=> (slice_index_of_particle[p + 1] = i)
            /\ 0 <= LB(i) /\ LB(i) <= UB(i) /\ UB(i) <= NParticles
            /\ (i < n_slices - 1) => (UB(i) = LB(i + 1))

(* bounds resolved for a slicing with an occupied slice, an empty slice and *)
(* a particle outside all slices                                            *)
C1_Witness ==
    /\ HasBounds(sliceset)
    /\ n_slices >= 2
    /\ \E i \in 0..(n_slices - 1) : LB(i) < UB(i)
    /\ \E i \in 0..(n_slices - 1) : LB(i) = UB(i)
    /\ \E p \in 1..NParticles : slice_index_of_particle[p] \notin 0..(n_slices - 1)

(* C2: the bounds are resolved by the first statistics request and never   *)
(* again; every request reads the bounds that first resolution attached,   *)
(* and the attached bounds stay what they were.                            *)
C2_ResolvedOnce ==
    /\ (requests = 0) => (resolutions = 0 /\ ~HasBounds(sliceset))
    /\ (requests >= 1) =>
        /\ resolutions = 1
        /\ HasBounds(sliceset)
        /\ <<sliceset.lower_bounds, sliceset.upper_bounds>> = first_bounds
        /\ result.op \in Requests
        /\ result.status = "ok"
        /\ <<result.lower, result.upper>> = first_bounds

(* a later request has returned on a slicing whose bounds were resolved before *)
C2_Witness ==
    /\ requests >= 2
    /\ resolutions = 1
    /\ result.op = "sorted_emittance_per_slice"
    /\ NParticles > 0

(* C7: particles_within_cuts returns the consecutive positions             *)
(* lower_bounds[0], ..., upper_bounds[n_slices-1] - 1, as first request    *)
(* and as a later one.                                                     *)
C7_WithinCuts ==
    (result.op = "particles_within_cuts") =>
        /\ result.status = "ok"
        /\ HasBounds(sliceset)
        /\ Len(result.data) = UB(n_slices - 1) - LB(0)
        /\ \A k \in 1..Len(result.data) : result.data[k] = LB(0) + k - 1

(* particles_within_cuts answered a later request with a range that starts *)
(* after position 0 and ends before the last particle                      *)
C7_Witness ==
    /\ result.op = "particles_within_cuts"
    /\ requests >= 2
    /\ Len(result.data) > 0
    /\ result.data[1] > 0
    /\ result.data[Len(result.data)] < NParticles - 1

RECURSIVE SumRange(_, _, _)
SumRange(a, lo, hi) == IF lo >= hi THEN 0 ELSE a[lo + 1] + SumRange(a, lo + 1, hi)

(* C8: sorted_mean_per_slice returns n_slices entries; entry i is the      *)
(* arithmetic mean of u[lower_bounds[i]:upper_bounds[i]] for a non-empty    *)
(* slice and 0 for an empty one.                                           *)
C8_MeanPerSlice ==
    (result.op = "sorted_mean_per_slice" /\ Len(args[1]) = NParticles) =>
        /\ result.status = "ok"
        /\ Len(result.data) = n_slices
        /\ \A i \in 0..(n_slices - 1) :
              IF LB(i) = UB(i)
              THEN result.data[i + 1] = <<0, 1>>
              ELSE /\ result.data[i + 1][2] > 0
                   /\ result.data[i + 1][1] * (UB(i) - LB(i))
                        = SumRange(args[1], LB(i), UB(i)) * result.data[i + 1][2]

(* a mean was returned for more slices than one block has threads, the     *)
(* last slice occupied with a non-zero mean and another slice empty        *)
C8_Witness ==
    /\ result.op = "sorted_mean_per_slice"
    /\ n_slices > BlockSize
    /\ result.data[n_slices] # <<0, 1>>
    /\ \E i \in 1..n_slices : result.data[i] = <<0, 1>>

-----------------------------------------------------------------------------
(* Properties of the emittance functions *)

CovStatement(stmt) ==
    sorted_cov_per_slice(sliceset, CovCall(stmt).a, CovCall(stmt).b, NoOob).ret.data

LaunchedStatements ==
    IF dp.none THEN {"cov_u2", "cov_up2", "cov_u_up"} ELSE CovStmts

(* C3: when sorted_emittance_per_slice reaches the composition step, every *)
(* covariance reduction it launched (three without dp, six with dp, at     *)
(* most two on a stream) has completed: no stream holds a pending kernel   *)
(* and each covariance array holds its finished reduction; the emittance   *)
(* returned is the one computed from the finished reductions.              *)
C3_ReductionsCompleteBeforeComposition ==
    /\ \A k \in 0..(n_streams - 1) : Len(streams[k]) <= 2
    /\ (pc.at = "compose") =>
        /\ \A k \in 0..(n_streams - 1) : streams[k] = <<>>
        /\ pc.launched = IF dp.none THEN 3 ELSE 6
        /\ \A stmt \in LaunchedStatements : cov[stmt] = CovStatement(stmt)
    /\ (pc = Idle /\ result.op = "sorted_emittance_per_slice") =>
        /\ result.started = IF dp.none THEN 3 ELSE 6
        /\ result.data = Compose(CovStatement("cov_u2"), CovStatement("cov_up2"),
                                 CovStatement("cov_u_up"),
                                 IF dp.none THEN Zeros(n_slices)
                                            ELSE CovStatement("cov_u_dp"),
                                 IF dp.none THEN Zeros(n_slices)
                                            ELSE CovStatement("cov_up_dp"),
                                 IF dp.none THEN Const(n_slices, Num(1))
                                            ELSE CovStatement("cov_dp2"))

(* the composition step reached with dp given, six reductions launched and *)
(* a covariance that is not zero                                           *)
C3_Witness ==
    /\ pc.at = "compose"
    /\ ~dp.none
    /\ pc.launched = 6
    /\ \E i \in 1..n_slices : cov["cov_u_dp"][i] # Num(0)

(* the whole-beam and per-slice covariances as the functions compute them *)
CovBeam(a, b) == covariance(a, b, 0)

CovSlices(a, b) == sorted_cov_per_slice(sliceset, a, b, NoOob).ret.data

(* C6: without dp the value under the square root of emittance and, slice  *)
(* by slice, of sorted_emittance_per_slice is                              *)
(* cov(u,u)*cov(up,up) - cov(u,up)^2.                                      *)
C6_DefaultDispersion ==
    dp.none =>
        /\ (result.op = "emittance") =>
              result.data[1] =
                  Sqrt(RSub(RMul(CovBeam(u, u), CovBeam(up, up)),
                            RMul(CovBeam(u, up), CovBeam(u, up))))
        /\ (result.op = "sorted_emittance_per_slice") =>
              /\ Len(result.data) = n_slices
              /\ \A i \in 1..n_slices :
                    result.data[i] =
                        Sqrt(RSub(RMul(CovSlices(u, u)[i], CovSlices(up, up)[i]),
                                  RMul(CovSlices(u, up)[i], CovSlices(u, up)[i])))

(* a per-slice emittance returned without dp whose radicand is positive *)
C6_Witness ==
    /\ dp.none
    /\ result.op = "sorted_emittance_per_slice"
    /\ \E i \in 1..n_slices : result.data[i].rad[2] # 0 /\ result.data[i].rad[1] > 0

-----------------------------------------------------------------------------
(* Properties of the calls on well-formed and ill-formed arguments *)

Supported(a) == IsFloat64(a) \/ IsInt32(a)

(* C4: argsort and apply_permutation (its permutation being int32) end     *)
(* with TypeError and no result on an array that is neither float64 nor    *)
(* int32, and return a result without error on float64 and int32.          *)
C4_UnsupportedTypeError ==
    (/\ result.op \in {"argsort", "apply_permutation"}
     /\ (result.op = "apply_permutation" => IsInt32(permutation))) =>
        IF Supported(array)
        THEN result.status = "ok"
        ELSE result.status = "TypeError" /\ result.data = <<>>

ShapeMismatch ==
    CASE result.op = "sorted_cov_per_slice" ->
            \E k \in 1..Len(args) : Len(args[k]) # NParticles
      [] result.op = "covariance" -> Len(args[1]) # Len(args[2])
      [] result.op = "apply_permutation" ->
            Len(permutation.data) # Len(array.data)
      [] OTHER -> FALSE

(* C5: sorted_cov_per_slice and covariance given arrays of differing       *)
(* lengths, and apply_permutation given a permutation of another length    *)
(* than the array, end with a shape-mismatch error before any reduction or *)
(* permutation has started and return no array.                            *)
C5_ShapeMismatchAtEntry ==
    ShapeMismatch =>
        /\ result.status = "ShapeMismatch"
        /\ result.started = 0
        /\ result.data = <<>>

PerSliceReducers == {"sorted_mean_per_slice", "sorted_std_per_slice",
                     "sorted_cov_per_slice", "sorted_emittance_per_slice"}

(* C9: no call changes a value array, dp, slice_index_of_particle, the     *)
(* array to sort or the permutation; a per-slice reducer returns a newly   *)
(* allocated array of n_slices entries, argsort and apply_permutation a    *)
(* newly allocated array as long as the input.                             *)
C9_NoMutation ==
    [][/\ u' = u /\ up' = up /\ dp' = dp
       /\ slice_index_of_particle' = slice_index_of_particle
       /\ array' = array
       /\ permutation' = permutation
       /\ (result'.status = "ok" /\ result'.op \in PerSliceReducers) =>
             (result'.buf = "new" /\ Len(result'.data) = n_slices)
       /\ (result'.status = "ok" /\ result'.op \in {"argsort", "apply_permutation"}) =>
             (result'.buf = "new" /\ Len(result'.data) = Len(array.data))]_vars

(* argsort has returned the permutation of an array that is not in order *)
C9_Witness ==
    /\ result.op = "argsort"
    /\ result.status = "ok"
    /\ \E i \in 1..(Len(array.data) - 1) : array.data[i] > array.data[i + 1]
    /\ \E i \in 1..(Len(result.data) - 1) : result.data[i] > result.data[i + 1]

-----------------------------------------------------------------------------
(* Properties of the launch configuration *)

Threads == launch.block * launch.grid

(* C10 as claimed: the launch has at least one thread per slice,           *)
(* 256 * max(n_slices div 256, 1) >= n_slices.                             *)
C10_ThreadPerSlice ==
    (launch # NoLaunch) => (Threads >= n_slices)

(* C10: the launch has blocks of 256 threads and at least one block; it    *)
(* has a thread per slice when n_slices <= 256 or n_slices is a multiple   *)
(* of 256, and otherwise 256 * (n_slices div 256) threads, fewer than      *)
(* n_slices and more than n_slices - 256.                                  *)
C10_ThreadsLaunched ==
    (launch # NoLaunch) =>
        /\ launch.block = BlockSize
        /\ launch.grid >= 1
        /\ (n_slices <= BlockSize \/ n_slices % BlockSize = 0) => (Threads >= n_slices)
        /\ (n_slices > BlockSize /\ n_slices % BlockSize # 0) =>
              /\ Threads = BlockSize * (n_slices \div BlockSize)
              /\ Threads < n_slices
              /\ Threads > n_slices - BlockSize

(* a launch for one slice more than two full blocks *)
C10_Witness ==
    /\ launch # NoLaunch
    /\ n_slices = 2 * BlockSize + 1
    /\ Threads = 2 * BlockSize

====
